---- MODULE Spec2Model ----
(***************************************************************************)
(* Model of scripts/generate-icons.py: the icon generator's run            *)
(* (generate_icons), the placeholder synthesizer (create_fallback_icon)    *)
(* and the vector metadata reader (parse_svg_dimensions).                  *)
(***************************************************************************)
EXTENDS Integers, Sequences, FiniteSets, TLC

(***************************************************************************)
(* Bounds of the model.                                                    *)
(***************************************************************************)
\* at most this many injected faults (conversion raises + save raises) per run
MaxFaults == 2
\* the same, for the runs that take the sizes in any order
MaxFaultsAnyOrder == 1
\* the longest width or height attribute text of the vector source
MaxAttrLen == 3
\* the largest left or top offset of a measured text bounding box
MaxOffset == 2
\* by how much the measured text extent may exceed the font size
MaxSlack == 2

(***************************************************************************)
(* generate_icons: constants of the run.                                   *)
(***************************************************************************)
base_dir == "public/icons"

sizes == <<72, 96, 128, 144, 152, 192, 384, 512>>

SizeSet == {sizes[k] : k \in 1..Len(sizes)}

\* os.path.join(base_dir, f"icon-{size}x{size}.png") with a colliding name
OutputPathFixedName(size) == base_dir \o "/" \o "icon.png"

\* os.path.join(base_dir, f"icon-{size}x{size}.png")
OutputPath(size) ==
    base_dir \o "/" \o "icon-" \o ToString(size) \o "x" \o ToString(size) \o ".png"

VARIABLES
    \* the environment of one run
    svgExists,      \* os.path.exists(svg_path)
    importable,     \* "import cairosvg" succeeds (otherwise ImportError)
    convRaises,     \* the sizes for which cairosvg.svg2png raises an Exception
    saveRaises,     \* the sizes for which img.save raises (write failure)
    files0,         \* the output directory before the run
    \* the run
    pc,             \* position in generate_icons
    use_svg,        \* local use_svg ("unbound" before its assignment)
    svg_to_png_available,   \* local, "unbound" | "true" | "false"
    i,              \* index in sizes of the iteration the for loop is in
    handling,       \* sizes whose iteration is inside the except handler
    finished,       \* sizes whose iteration has ended
    files,          \* the output directory: path -> the image stored there
    printed,        \* the console lines printed so far
    attempts,       \* per size, the calls of cairosvg.svg2png so far
    synths,         \* per size, the calls of create_fallback_icon so far
    \* one call of parse_svg_dimensions
    svgFile,        \* the file at svg_path: "missing", "malformed" or its root
    parsed,         \* "pending", or what the call did: raised or returned
    \* one call of create_fallback_icon
    icon_size,      \* the argument size
    dejavuLoads,    \* ImageFont.truetype(<DejaVuSans-Bold path>, ...) succeeds
    arialLoads,     \* ImageFont.truetype("arial.ttf", ...) succeeds
    fpc,            \* position in create_fallback_icon
    font_size,      \* local font_size: <<>> while unbound, then <<value>>
    font,           \* local font ("unbound" before its assignment)
    tried,          \* the font loads attempted so far, in order
    bbox,           \* local bbox: <<left, top, right, bottom>>
    text_at,        \* where draw.text put the label: <<x, y>>
    img             \* the image being drawn, returned at the end

envVars == <<svgExists, importable, convRaises, saveRaises, files0>>
runVars == <<pc, use_svg, svg_to_png_available, i, handling, finished, files,
             printed, attempts, synths>>
parseVars == <<svgFile, parsed>>
iconVars == <<icon_size, dejavuLoads, arialLoads, fpc, font_size, font, tried,
              bbox, text_at, img>>
vars == <<envVars, runVars, parseVars, iconVars>>

(***************************************************************************)
(* The images and the file system.                                         *)
(***************************************************************************)
NoFiles == [p \in {} |-> [width |-> 0, height |-> 0, by |-> "none"]]

\* what an earlier run, or anything else, left at the output paths
OldFiles == [p \in {OutputPath(s) : s \in SizeSet} |->
                [width |-> 1, height |-> 1, by |-> "old"]]

WriteFile(fs, path, image) ==
    [p \in DOMAIN fs \cup {path} |-> IF p = path THEN image ELSE fs[p]]

\* Image.new('RGBA', (size, size), ...) with the height taken from the margin
NewImageShort(size) == [width |-> size, height |-> size - size \div 8, by |-> "placeholder"]

\* Image.new('RGBA', (size, size), (0, 0, 0, 0)): what create_fallback_icon returns
NewImage(size) == [width |-> size, height |-> size, by |-> "placeholder"]

\* what svg2png(url, write_to, output_width=size, output_height=size) writes
SvgToPng(output_width, output_height) ==
    [width |-> output_width, height |-> output_height, by |-> "vector"]

\* "svg_to_png_available and use_svg": the operands in the other order
DispatchAvailableFirst(use, available) ==
    IF available = "unbound" THEN "NameError"
    ELSE IF available = "true" /\ use = "true" THEN "vector" ELSE "placeholder"

\* "if use_svg and svg_to_png_available": "and" evaluates its right operand
\* only when the left one is true; reading an unbound local raises NameError
Dispatch(use, available) ==
    IF use = "unbound" THEN "NameError"
    ELSE IF use = "false" THEN "placeholder"
    ELSE IF available = "unbound" THEN "NameError"
    ELSE IF available = "true" THEN "vector" ELSE "placeholder"

Bump(f, s) == [f EXCEPT ![s] = @ + 1]

(***************************************************************************)
(* Init: the state when generate_icons is entered.                         *)
(***************************************************************************)
InitRun ==
    /\ svgExists \in BOOLEAN
    /\ importable \in BOOLEAN
    \* svg2png is called, and so can raise, only when the run converts
    /\ convRaises \in IF svgExists /\ importable THEN SUBSET SizeSet ELSE {{}}
    /\ saveRaises \in SUBSET SizeSet
    /\ Cardinality(convRaises) + Cardinality(saveRaises) <= MaxFaults
    /\ files0 \in {NoFiles, OldFiles}
    /\ pc = "exists"
    /\ use_svg = "unbound"
    /\ svg_to_png_available = "unbound"
    /\ i = 0
    /\ handling = {}
    /\ finished = {}
    /\ files = files0
    /\ printed = {}
    /\ attempts = [s \in SizeSet |-> 0]
    /\ synths = [s \in SizeSet |-> 0]

\* no call of parse_svg_dimensions is in progress
ParseIdle ==
    /\ svgFile = [kind |-> "missing", width |-> <<"absent">>, height |-> <<"absent">>]
    /\ parsed = [called |-> FALSE, exc |-> "none", val |-> <<>>]

\* no separate call of create_fallback_icon is in progress
IconIdle ==
    /\ icon_size = 0
    /\ dejavuLoads = FALSE
    /\ arialLoads = FALSE
    /\ fpc = "idle"
    /\ font_size = <<>>
    /\ font = "unbound"
    /\ tried = <<>>
    /\ bbox = <<>>
    /\ text_at = <<>>
    /\ img = [width |-> 0, height |-> 0, by |-> "none"]

\* generate_icons has not been entered
RunIdle ==
    /\ svgExists = FALSE
    /\ importable = FALSE
    /\ convRaises = {}
    /\ saveRaises = {}
    /\ files0 = NoFiles
    /\ pc = "idle"
    /\ use_svg = "unbound"
    /\ svg_to_png_available = "unbound"
    /\ i = 0
    /\ handling = {}
    /\ finished = {}
    /\ files = NoFiles
    /\ printed = {}
    /\ attempts = [s \in SizeSet |-> 0]
    /\ synths = [s \in SizeSet |-> 0]

Init == InitRun /\ ParseIdle /\ IconIdle

(***************************************************************************)
(* generate_icons, before the loop.                                        *)
(***************************************************************************)
\* use_svg = os.path.exists(svg_path); "if use_svg:"
CheckSource ==
    /\ pc = "exists"
    /\ use_svg' = IF svgExists THEN "true" ELSE "false"
    /\ pc' = IF svgExists THEN "import" ELSE "banner"
    /\ UNCHANGED <<parseVars, iconVars, envVars, svg_to_png_available, i, handling, finished, files,
                   printed, attempts, synths>>

\* try: import cairosvg ... except ImportError: ...
ImportBackend ==
    /\ pc = "import"
    /\ IF importable
          THEN /\ svg_to_png_available' = "true"
               /\ UNCHANGED printed
          ELSE /\ svg_to_png_available' = "false"
               /\ printed' = printed \cup {[line |-> "not available", size |-> 0]}
    /\ pc' = "banner"
    /\ UNCHANGED <<parseVars, iconVars, envVars, use_svg, i, handling, finished, files, attempts, synths>>

\* print(f"Generating icons for sizes: {sizes}"); the for loop starts
Banner ==
    /\ pc = "banner"
    /\ printed' = printed \cup {[line |-> "generating", size |-> 0]}
    /\ pc' = "loop"
    /\ i' = 1
    /\ UNCHANGED <<parseVars, iconVars, envVars, use_svg, svg_to_png_available, handling, finished,
                   files, attempts, synths>>

(***************************************************************************)
(* One iteration of the loop, for one size.                                *)
(***************************************************************************)
\* the try block, with a success that falls through into the handler
AttemptVectorFallThrough(size) ==
    /\ pc = "loop"
    /\ size \notin handling \cup finished
    /\ Dispatch(use_svg, svg_to_png_available) = "vector"
    /\ attempts' = Bump(attempts, size)
    /\ handling' = handling \cup {size}
    /\ IF size \in convRaises
          THEN /\ printed' = printed \cup {[line |-> "failed", size |-> size]}
               /\ UNCHANGED files
          ELSE /\ files' = WriteFile(files, OutputPath(size), SvgToPng(size, size))
               /\ printed' = printed \cup {[line |-> "from SVG", size |-> size]}
    /\ UNCHANGED <<parseVars, iconVars, envVars, pc, use_svg, svg_to_png_available, finished, synths>>

\* try: cairosvg.svg2png(...); print(...)  except Exception as e: print(...)
AttemptVector(size) ==
    /\ pc = "loop"
    /\ size \notin handling \cup finished
    /\ Dispatch(use_svg, svg_to_png_available) = "vector"
    /\ attempts' = Bump(attempts, size)
    /\ IF size \in convRaises
          THEN /\ printed' = printed \cup {[line |-> "failed", size |-> size]}
               /\ handling' = handling \cup {size}
               /\ UNCHANGED <<files, finished>>
          ELSE /\ files' = WriteFile(files, OutputPath(size), SvgToPng(size, size))
               /\ printed' = printed \cup {[line |-> "from SVG", size |-> size]}
               /\ finished' = finished \cup {size}
               /\ UNCHANGED handling
    /\ UNCHANGED <<parseVars, iconVars, envVars, pc, use_svg, svg_to_png_available, synths>>

\* img = create_fallback_icon(size); img.save(...) inside "try/except: pass"
PlaceholderAndSaveSwallow(size) ==
    /\ synths' = Bump(synths, size)
    /\ handling' = handling \ {size}
    /\ finished' = finished \cup {size}
    /\ IF size \in saveRaises
          THEN UNCHANGED <<files, printed>>
          ELSE /\ files' = WriteFile(files, OutputPath(size), NewImage(size))
               /\ printed' = printed \cup {[line |-> "fallback", size |-> size]}
    /\ UNCHANGED pc

\* img = create_fallback_icon(size); img.save(output_path, "PNG"); print(...)
\* an exception of img.save is caught nowhere: it ends the run
PlaceholderAndSave(size) ==
    /\ synths' = Bump(synths, size)
    /\ IF size \in saveRaises
          THEN /\ pc' = "crashed"
               /\ UNCHANGED <<files, printed, handling, finished>>
          ELSE /\ files' = WriteFile(files, OutputPath(size), NewImage(size))
               /\ printed' = printed \cup {[line |-> "fallback", size |-> size]}
               /\ handling' = handling \ {size}
               /\ finished' = finished \cup {size}
               /\ UNCHANGED pc

\* the except handler that only reports the failure
HandlerSkip(size) ==
    /\ pc = "loop"
    /\ size \in handling
    /\ handling' = handling \ {size}
    /\ finished' = finished \cup {size}
    /\ UNCHANGED <<parseVars, iconVars, envVars, pc, use_svg, svg_to_png_available, files, printed,
                   attempts, synths>>

\* except Exception as e: ... the fallback of the handler
HandlerFallback(size) ==
    /\ pc = "loop"
    /\ size \in handling
    /\ PlaceholderAndSave(size)
    /\ UNCHANGED <<parseVars, iconVars, envVars, use_svg, svg_to_png_available, attempts>>

\* else: the fallback when the condition of the if is false (or cannot be
\* evaluated: the NameError ends the run)
ElseFallback(size) ==
    /\ pc = "loop"
    /\ size \notin handling \cup finished
    /\ Dispatch(use_svg, svg_to_png_available) # "vector"
    /\ IF Dispatch(use_svg, svg_to_png_available) = "NameError"
          THEN /\ pc' = "crashed"
               /\ UNCHANGED <<files, printed, handling, finished, synths>>
          ELSE PlaceholderAndSave(size)
    /\ UNCHANGED <<parseVars, iconVars, envVars, use_svg, svg_to_png_available, attempts>>

(***************************************************************************)
(* The for loop: the sizes in list order, one at a time.                   *)
(***************************************************************************)
\* the loop goes to the next size when the iteration of sizes[i] has ended
Advance == i' = IF sizes[i] \in finished' THEN i + 1 ELSE i

LoopAttemptVector ==
    /\ i \in 1..Len(sizes)
    /\ AttemptVector(sizes[i])
    /\ Advance

LoopHandlerFallback ==
    /\ i \in 1..Len(sizes)
    /\ HandlerFallback(sizes[i])
    /\ Advance

LoopElseFallback ==
    /\ i \in 1..Len(sizes)
    /\ ElseFallback(sizes[i])
    /\ Advance

\* print("Icon generation complete!")
Complete ==
    /\ pc = "loop"
    /\ i = Len(sizes) + 1
    /\ printed' = printed \cup {[line |-> "complete", size |-> 0]}
    /\ pc' = "done"
    /\ UNCHANGED <<parseVars, iconVars, envVars, use_svg, svg_to_png_available, i, handling, finished,
                   files, attempts, synths>>

Next ==
    \/ CheckSource
    \/ ImportBackend
    \/ Banner
    \/ LoopAttemptVector
    \/ LoopHandlerFallback
    \/ LoopElseFallback
    \/ Complete

Spec == Init /\ [][Next]_vars

(***************************************************************************)
(* The same iterations taken in any order and interleaved: what a          *)
(* parallel map over sizes would run.  An unrecovered fault still ends     *)
(* the run.                                                                *)
(***************************************************************************)
AnyAttemptVector ==
    /\ \E size \in SizeSet : AttemptVector(size)
    /\ UNCHANGED i

AnyHandlerFallback ==
    /\ \E size \in SizeSet : HandlerFallback(size)
    /\ UNCHANGED i

AnyElseFallback ==
    /\ \E size \in SizeSet : ElseFallback(size)
    /\ UNCHANGED i

CompleteAnyOrder ==
    /\ pc = "loop"
    /\ finished = SizeSet
    /\ printed' = printed \cup {[line |-> "complete", size |-> 0]}
    /\ pc' = "done"
    /\ UNCHANGED <<parseVars, iconVars, envVars, use_svg, svg_to_png_available, i, handling, finished,
                   files, attempts, synths>>

NextAnyOrder ==
    \/ CheckSource
    \/ ImportBackend
    \/ Banner
    \/ AnyAttemptVector
    \/ AnyHandlerFallback
    \/ AnyElseFallback
    \/ CompleteAnyOrder

InitAnyOrder ==
    /\ Init
    /\ Cardinality(convRaises) + Cardinality(saveRaises) <= MaxFaultsAnyOrder

SpecAnyOrder == InitAnyOrder /\ [][NextAnyOrder]_vars

(***************************************************************************)
(* The sequential run as a function of the environment: the files that     *)
(* generate_icons leaves, iterating sizes[k..] from the directory fs.      *)
(***************************************************************************)
\* the path the dispatcher takes for a size: "vector", "placeholder", or
\* "failed+placeholder" (vector attempt raised, handler fell back)
GenerationPath(size) ==
    IF Dispatch(IF svgExists THEN "true" ELSE "false",
                IF ~svgExists THEN "unbound"
                ELSE IF importable THEN "true" ELSE "false") = "vector"
       THEN IF size \in convRaises THEN "failed+placeholder" ELSE "vector"
       ELSE "placeholder"

RECURSIVE SequentialFiles(_, _)
SequentialFiles(k, fs) ==
    IF k > Len(sizes) THEN fs
    ELSE LET size == sizes[k] IN
         IF GenerationPath(size) = "vector"
            THEN SequentialFiles(k + 1,
                     WriteFile(fs, OutputPath(size), SvgToPng(size, size)))
         ELSE IF size \in saveRaises THEN fs
         ELSE SequentialFiles(k + 1,
                     WriteFile(fs, OutputPath(size), NewImage(size)))

(***************************************************************************)
(* Properties of the run.                                                  *)
(***************************************************************************)
IndexOf(size) == CHOOSE k \in 1..Len(sizes) : sizes[k] = size

Stored(size) == OutputPath(size) \in DOMAIN files

StoredBy(size, how) ==
    /\ Stored(size)
    /\ files[OutputPath(size)] = [width |-> size, height |-> size, by |-> how]

Untouched(size) ==
    /\ Stored(size) <=> OutputPath(size) \in DOMAIN files0
    /\ Stored(size) => files[OutputPath(size)] = files0[OutputPath(size)]

\* C1: when a run of generate_icons has completed, for every size of the list
\* the file icon-<size>x<size>.png exists and is size x size pixels, whether
\* the vector conversion or the placeholder synthesizer wrote it.
C1_EveryIconHasItsSize ==
    pc = "done" =>
        \A s \in SizeSet :
            /\ OutputPath(s) = "public/icons/icon-" \o ToString(s) \o "x"
                                   \o ToString(s) \o ".png"
            /\ OutputPath(s) \in DOMAIN files
            /\ files[OutputPath(s)].width = s
            /\ files[OutputPath(s)].height = s
            /\ files[OutputPath(s)].by \in {"vector", "placeholder"}

C1_Witness ==
    /\ pc = "done"
    /\ files0 = OldFiles
    /\ \E s \in SizeSet : files[OutputPath(s)].by = "vector"
    /\ \E s \in SizeSet : files[OutputPath(s)].by = "placeholder"

\* C2: with the vector source present and the backend imported, a conversion
\* that raises for some size does not end the run: that size is written by the
\* placeholder synthesizer (its save succeeding), the other sizes by the
\* vector path, the loop goes on to the remaining sizes and the run completes
\* with all 8 files.
C2_ConversionFailureIsLocal ==
    (svgExists /\ importable /\ convRaises \cap saveRaises = {}) =>
        /\ pc # "crashed"
        /\ pc # "done" => ENABLED Next
        /\ \A s \in finished :
              StoredBy(s, IF s \in convRaises THEN "placeholder" ELSE "vector")
        /\ pc = "done" => finished = SizeSet /\ Cardinality(DOMAIN files) = 8

C2_Witness ==
    /\ pc = "done"
    /\ svgExists /\ importable
    /\ convRaises = {sizes[3]}
    /\ files0 = NoFiles
    /\ StoredBy(sizes[3], "placeholder")
    /\ \A s \in SizeSet \ {sizes[3]} : StoredBy(s, "vector")

\* C3: when the vector source is absent, or present with the backend not
\* importable, no vector conversion is attempted, every size the run gets to
\* is written by the placeholder synthesizer, and the files are the same
\* function of the sizes processed in both cases; the run stops early only on
\* a failed save.
C3_PlaceholderOnlyWithoutBackend ==
    (pc \notin {"exists", "import"} /\ (~svgExists \/ ~importable)) =>
        /\ \A s \in SizeSet : attempts[s] = 0
        /\ \A s \in finished : StoredBy(s, "placeholder")
        /\ \A s \in SizeSet \ finished : Untouched(s)
        /\ DOMAIN files = DOMAIN files0 \cup {OutputPath(s) : s \in finished}
        /\ pc = "crashed" => \E s \in saveRaises : synths[s] > 0
        /\ (pc = "loop" /\ saveRaises = {}) => ENABLED Next
        /\ (pc = "done") => finished = SizeSet

C3_Witness ==
    /\ pc = "done"
    /\ svgExists /\ ~importable
    /\ \A s \in SizeSet : StoredBy(s, "placeholder")

C3_WitnessNoSource ==
    /\ pc = "done"
    /\ ~svgExists
    /\ \A s \in SizeSet : StoredBy(s, "placeholder")

\* C7: a save of a placeholder image that fails is not recovered: the run ends
\* at that size, no later size of the list is processed, the completion banner
\* is not printed, and the files written for the earlier sizes stay in place.
C7_SaveFailureEndsRun ==
    \A s \in SizeSet :
        (s \in saveRaises /\ synths[s] > 0) =>
            /\ pc = "crashed"
            /\ ~ENABLED Next
            /\ [line |-> "complete", size |-> 0] \notin printed
            /\ s \notin finished
            /\ \A t \in SizeSet :
                  /\ IndexOf(t) > IndexOf(s) =>
                        attempts[t] = 0 /\ synths[t] = 0 /\ Untouched(t)
                  /\ IndexOf(t) < IndexOf(s) =>
                        StoredBy(t, "vector") \/ StoredBy(t, "placeholder")

C7_Witness ==
    /\ pc = "crashed"
    /\ sizes[4] \in saveRaises /\ synths[sizes[4]] = 1
    /\ files0 = NoFiles
    /\ DOMAIN files = {OutputPath(sizes[k]) : k \in 1..3}

\* C10: the sizes are processed in list order, one at a time; each size gets
\* at most one vector attempt and at most one placeholder synthesis, a
\* placeholder follows a vector attempt only when that attempt failed, a size
\* converted successfully keeps its vector image, and every size before the
\* current one is persisted before the current one starts.
C10_LinearFlowInListOrder ==
    /\ i \in 0..(Len(sizes) + 1)
    /\ finished = {sizes[k] : k \in 1..(i - 1)}
    /\ handling \subseteq {sizes[k] : k \in {i} \cap (1..Len(sizes))}
    /\ \A s \in SizeSet :
          /\ attempts[s] <= 1 /\ synths[s] <= 1
          /\ (attempts[s] = 1 /\ synths[s] = 1) => s \in convRaises
          /\ (attempts[s] = 1 /\ s \notin convRaises) =>
                s \in finished /\ StoredBy(s, "vector")
          /\ s \in finished =>
                /\ attempts[s] + synths[s] >= 1
                /\ StoredBy(s, IF synths[s] = 1 THEN "placeholder" ELSE "vector")
          /\ IndexOf(s) > i => attempts[s] = 0 /\ synths[s] = 0 /\ Untouched(s)

C10_Witness ==
    /\ pc = "done"
    /\ \E s \in SizeSet : attempts[s] = 1 /\ synths[s] = 1
    /\ \E s \in SizeSet : attempts[s] = 1 /\ synths[s] = 0

\* the loop of the model computes what the sequential run computes
SequentialRunAgrees ==
    pc \in {"done", "crashed"} => files = SequentialFiles(1, files0)

\* C8 as stated: taking the sizes in any order, or interleaved, ends with the
\* same set of files as the sequential run in list order.
C8_AnyOrderSameFiles ==
    pc \in {"done", "crashed"} => files = SequentialFiles(1, files0)

\* C8 amended: an iteration writes only the path of its own size and the paths
\* of distinct sizes differ, so in any order or interleaving every size that is
\* processed gets the image and generation path it gets in the sequential run,
\* and a run in which no save fails ends with the files of the sequential run.
C8_AnyOrderSameFilesUnlessSaveFails ==
    /\ \A s, t \in SizeSet : OutputPath(s) = OutputPath(t) => s = t
    /\ \A s \in SizeSet \ finished : Untouched(s)
    /\ \A s \in finished :
          StoredBy(s, IF GenerationPath(s) = "vector" THEN "vector" ELSE "placeholder")
    /\ pc = "done" => files = SequentialFiles(1, files0)

C8_Witness ==
    /\ pc = "loop"
    /\ sizes[8] \in finished /\ sizes[1] \in handling /\ sizes[2] \notin finished
    /\ StoredBy(sizes[8], "vector")

(***************************************************************************)
(* parse_svg_dimensions.  A call returns [exc, val]: exc is "none" and val *)
(* the value returned, or exc names the exception that left the call.      *)
(***************************************************************************)
\* the characters attribute texts are made of
AttrChars == {"2", "5", "6", "-", "p"}

AttrTexts == UNION {[1..n -> AttrChars] : n \in 0..MaxAttrLen}

Absent == <<"absent">>

\* the files svg_path can name
SvgFiles ==
    {[kind |-> "missing", width |-> Absent, height |-> Absent],
     [kind |-> "malformed", width |-> Absent, height |-> Absent]}
    \cup [kind : {"xml"}, width : AttrTexts \cup {Absent},
                          height : AttrTexts \cup {Absent}]

Digits == {"0", "1", "2", "3", "4", "5", "6", "7", "8", "9"}

DigitValue(c) ==
    CASE c = "0" -> 0 [] c = "1" -> 1 [] c = "2" -> 2 [] c = "3" -> 3
      [] c = "4" -> 4 [] c = "5" -> 5 [] c = "6" -> 6 [] c = "7" -> 7
      [] c = "8" -> 8 [] c = "9" -> 9

RECURSIVE Horner(_, _)
Horner(text, acc) ==
    IF text = <<>> THEN acc
    ELSE Horner(Tail(text), 10 * acc + DigitValue(Head(text)))

\* int(text) for a str: an optional sign, then one or more decimal digits;
\* anything else raises ValueError
int(text) ==
    LET signed == text # <<>> /\ Head(text) \in {"-", "+"}
        digits == IF signed THEN Tail(text) ELSE text
    IN  IF digits = <<>> \/ \E k \in 1..Len(digits) : digits[k] \notin Digits
           THEN [exc |-> "ValueError", val |-> 0]
           ELSE [exc |-> "none",
                 val |-> IF signed /\ Head(text) = "-"
                            THEN 0 - Horner(digits, 0) ELSE Horner(digits, 0)]

\* ET.parse(svg_path).getroot()
ET_parse(file) ==
    IF file.kind = "missing" THEN [exc |-> "FileNotFoundError", val |-> file]
    ELSE IF file.kind = "malformed" THEN [exc |-> "ParseError", val |-> file]
    ELSE [exc |-> "none", val |-> file]

\* root.get(name): without the default the absent attribute is None, and
\* int(None) raises; modelled by a text int() rejects
RootGetNoDefault(root, name, default) ==
    IF root[name] = Absent THEN <<"N", "o", "n", "e">> ELSE root[name]

\* root.get(name, default)
RootGet(root, name, default) ==
    IF root[name] = Absent THEN default ELSE root[name]

\* the body of the try block: the first exception leaves it
TryBody(file) ==
    LET tree == ET_parse(file) IN
    IF tree.exc # "none" THEN [exc |-> tree.exc, val |-> <<>>]
    ELSE LET width == int(RootGet(tree.val, "width", <<"5", "1", "2">>)) IN
         IF width.exc # "none" THEN [exc |-> width.exc, val |-> <<>>]
         ELSE LET height == int(RootGet(tree.val, "height", <<"5", "1", "2">>)) IN
              IF height.exc # "none" THEN [exc |-> height.exc, val |-> <<>>]
              ELSE [exc |-> "none", val |-> <<width.val, height.val>>]

\* "except ET.ParseError: return 512, 512": other exceptions pass
ExceptParseError(result) ==
    IF result.exc = "ParseError" THEN [exc |-> "none", val |-> <<512, 512>>]
    ELSE result

\* "except: return 512, 512": the bare except catches every exception
Except(result) ==
    IF result.exc # "none" THEN [exc |-> "none", val |-> <<512, 512>>]
    ELSE result

parse_svg_dimensions(svg_path) == Except(TryBody(svg_path))

InitParse ==
    /\ svgFile \in SvgFiles
    /\ parsed = [called |-> FALSE, exc |-> "none", val |-> <<>>]
    /\ RunIdle
    /\ IconIdle

\* the call parse_svg_dimensions(svg_path)
ParseCall ==
    /\ ~parsed.called
    /\ parsed' = [called |-> TRUE, exc |-> parse_svg_dimensions(svgFile).exc,
                  val |-> parse_svg_dimensions(svgFile).val]
    /\ UNCHANGED <<svgFile, envVars, runVars, iconVars>>

NextParse == ParseCall

SpecParse == InitParse /\ [][NextParse]_vars

(***************************************************************************)
(* Properties of parse_svg_dimensions.                                     *)
(***************************************************************************)
\* an attribute text that is a decimal integer: "-"? digit+
IsIntegerText(text) ==
    /\ text # Absent
    /\ text # <<>> /\ text # <<"-">>
    /\ \A k \in 1..Len(text) : text[k] \in Digits \/ (k = 1 /\ text[k] = "-")

RECURSIVE Pow10(_)
Pow10(n) == IF n = 0 THEN 1 ELSE 10 * Pow10(n - 1)

\* the integer an integer text denotes, digit by digit
IntegerOf(text) ==
    LET neg == text[1] = "-"
        from == IF neg THEN 2 ELSE 1
        RECURSIVE Sum(_)
        Sum(k) == IF k > Len(text) THEN 0
                  ELSE DigitValue(text[k]) * Pow10(Len(text) - k) + Sum(k + 1)
    IN  IF neg THEN 0 - Sum(from) ELSE Sum(from)

\* C4: parse_svg_dimensions never raises: a root with integer width and height
\* gives exactly that pair (256, 256 for "256", "256"), a root with neither
\* attribute gives (512, 512), and a missing or malformed file gives (512, 512).
C4_ParseNeverRaises ==
    parsed.called =>
        /\ parsed.exc = "none"
        /\ Len(parsed.val) = 2
        /\ (svgFile.kind = "xml" /\ IsIntegerText(svgFile.width)
                                 /\ IsIntegerText(svgFile.height)) =>
              parsed.val = <<IntegerOf(svgFile.width), IntegerOf(svgFile.height)>>
        /\ (svgFile.kind = "xml" /\ svgFile.width = <<"2", "5", "6">>
                                 /\ svgFile.height = <<"2", "5", "6">>) =>
              parsed.val = <<256, 256>>
        /\ (svgFile.kind = "xml" /\ svgFile.width = Absent /\ svgFile.height = Absent) =>
              parsed.val = <<512, 512>>
        /\ svgFile.kind \in {"missing", "malformed"} => parsed.val = <<512, 512>>

C4_Witness ==
    /\ parsed.called
    /\ svgFile.kind = "xml"
    /\ svgFile.width = <<"2", "5", "6">> /\ svgFile.height = <<"2", "5", "6">>
    /\ parsed.val = <<256, 256>>

C4_WitnessMalformed ==
    /\ parsed.called
    /\ svgFile.kind = "malformed"
    /\ parsed.val = <<512, 512>>

\* the value the claim gives one attribute: parsed when an integer, else 512
IndependentDefault(text) == IF IsIntegerText(text) THEN IntegerOf(text) ELSE 512

\* C5 as stated: width and height default independently: with one attribute
\* absent or not an integer and the other an integer, the result has 512 for
\* the bad one and the parsed value for the good one.
C5_IndependentDefaults ==
    (parsed.called /\ svgFile.kind = "xml"
       /\ (IsIntegerText(svgFile.width) # IsIntegerText(svgFile.height))) =>
        parsed.val = <<IndependentDefault(svgFile.width),
                       IndependentDefault(svgFile.height)>>

\* C5 amended: an absent attribute defaults to 512 on its own, the other
\* keeping its parsed value; an attribute that is present but not an integer
\* makes the whole result (512, 512), the other attribute's value included.
C5_AbsentIndependentUnparsableBoth ==
    (parsed.called /\ svgFile.kind = "xml") =>
        LET w == svgFile.width
            h == svgFile.height
            bad(a) == a # Absent /\ ~IsIntegerText(a)
        IN  /\ (w = Absent /\ IsIntegerText(h)) => parsed.val = <<512, IntegerOf(h)>>
            /\ (h = Absent /\ IsIntegerText(w)) => parsed.val = <<IntegerOf(w), 512>>
            /\ (bad(w) \/ bad(h)) => parsed.val = <<512, 512>>

C5_Witness ==
    /\ parsed.called
    /\ svgFile.kind = "xml"
    /\ svgFile.width = <<"2", "p">> /\ svgFile.height = <<"2", "5", "6">>
    /\ parsed.val = <<512, 512>>

C5_WitnessAbsent ==
    /\ parsed.called
    /\ svgFile.kind = "xml"
    /\ svgFile.width = Absent /\ svgFile.height = <<"2", "5", "6">>
    /\ parsed.val = <<512, 256>>

(***************************************************************************)
(* create_fallback_icon(size), step by step.                               *)
(***************************************************************************)
InitIcon ==
    /\ icon_size \in SizeSet
    /\ dejavuLoads \in BOOLEAN
    /\ arialLoads \in BOOLEAN
    /\ fpc = "new"
    /\ font_size = <<>>
    /\ font = "unbound"
    /\ tried = <<>>
    /\ bbox = <<>>
    /\ text_at = <<>>
    /\ img = [width |-> 0, height |-> 0, by |-> "none"]
    /\ RunIdle
    /\ ParseIdle

\* img = Image.new(...); draw = ImageDraw.Draw(img); draw.ellipse(...)
IconNew ==
    /\ fpc = "new"
    /\ img' = NewImage(icon_size)
    /\ fpc' = "dejavu"
    /\ UNCHANGED <<icon_size, dejavuLoads, arialLoads, font_size, font, tried,
                   bbox, text_at, envVars, runVars, parseVars>>

\* font_size assigned after the truetype call: bound only when the load worked
FontSizeAfterLoad(size, loaded) == IF loaded THEN <<size \div 3>> ELSE <<>>

\* font_size = size // 3 is the first statement of the try block: it is bound
\* whether or not the truetype call after it raises
FontSizeAfterTry(size, loaded) == <<size \div 3>>

\* try: font_size = size // 3; font = ImageFont.truetype(<DejaVuSans-Bold>, font_size)
TryDejavu ==
    /\ fpc = "dejavu"
    /\ tried' = Append(tried, "DejaVuSans-Bold.ttf")
    /\ font_size' = FontSizeAfterTry(icon_size, dejavuLoads)
    /\ IF dejavuLoads
          THEN font' = "DejaVuSans-Bold.ttf" /\ fpc' = "measure"
          ELSE UNCHANGED font /\ fpc' = "arial"
    /\ UNCHANGED <<icon_size, dejavuLoads, arialLoads, bbox, text_at, img,
                   envVars, runVars, parseVars>>

\* except: try: font = ImageFont.truetype("arial.ttf", font_size)
\* (reading an unbound font_size raises NameError, which the inner bare
\* except catches like a failed load)
TryArial ==
    /\ fpc = "arial"
    /\ tried' = Append(tried, "arial.ttf")
    /\ IF font_size # <<>> /\ arialLoads
          THEN font' = "arial.ttf" /\ fpc' = "measure"
          ELSE UNCHANGED font /\ fpc' = "default"
    /\ UNCHANGED <<icon_size, dejavuLoads, arialLoads, font_size, bbox, text_at,
                   img, envVars, runVars, parseVars>>

\* except: font = ImageFont.load_default()
LoadDefault ==
    /\ fpc = "default"
    /\ tried' = Append(tried, "load_default")
    /\ font' = "load_default"
    /\ fpc' = "measure"
    /\ UNCHANGED <<icon_size, dejavuLoads, arialLoads, font_size, bbox, text_at,
                   img, envVars, runVars, parseVars>>

\* the boxes draw.textbbox((0, 0), text, font=font) can measure
BBoxes(size) ==
    {<<left, top, left + size \div 3 + dw, top + size \div 3 + dh>> :
        left \in 0..MaxOffset, top \in 0..MaxOffset,
        dw \in 0..MaxSlack, dh \in 0..MaxSlack}

\* bbox = draw.textbbox((0, 0), text, font=font)
Measure ==
    /\ fpc = "measure"
    /\ bbox' \in BBoxes(icon_size)
    /\ fpc' = "draw"
    /\ UNCHANGED <<icon_size, dejavuLoads, arialLoads, font_size, font, tried,
                   text_at, img, envVars, runVars, parseVars>>

\* text_width = bbox[2] - bbox[0]; text_height = bbox[3] - bbox[1]
\* x = (size - text_width) // 2; y = (size - text_height) // 2
TextOrigin(size, box) ==
    <<(size - (box[3] - box[1])) \div 2, (size - (box[4] - box[2])) \div 2>>

\* draw.text((x, y), text, ...); return img
DrawText ==
    /\ fpc = "draw"
    /\ text_at' = TextOrigin(icon_size, bbox)
    /\ fpc' = "return"
    /\ UNCHANGED <<icon_size, dejavuLoads, arialLoads, font_size, font, tried,
                   bbox, img, envVars, runVars, parseVars>>

NextIcon ==
    \/ IconNew
    \/ TryDejavu
    \/ TryArial
    \/ LoadDefault
    \/ Measure
    \/ DrawText

SpecIcon == InitIcon /\ [][NextIcon]_vars

(***************************************************************************)
(* Properties of create_fallback_icon.                                     *)
(***************************************************************************)
Abs(n) == IF n < 0 THEN 0 - n ELSE n

\* the glyph drawn at text_at covers text_at + bbox: the free space on its
\* four sides
SpaceLeft == text_at[1] + bbox[1]
SpaceRight == icon_size - (text_at[1] + bbox[3])
SpaceAbove == text_at[2] + bbox[2]
SpaceBelow == icon_size - (text_at[2] + bbox[4])

\* C6: for every size and every measured bounding box, the drawn glyph has
\* equal space, up to one pixel of rounding, on its left and right and above
\* and below it, a non-zero left or top offset of the box included.
C6_GlyphCentered ==
    fpc = "return" =>
        /\ Abs(SpaceLeft - SpaceRight) <= 1
        /\ Abs(SpaceAbove - SpaceBelow) <= 1

\* the font loads in the order the chain tries them
FontChain == <<"DejaVuSans-Bold.ttf", "arial.ttf", "load_default">>

\* C9: the fonts are tried in order: arial.ttf only after the DejaVu load
\* failed, with font_size = size // 3 bound by then; the built-in default only
\* after both loads failed; the chain ends with a font, and the call returns
\* an image whatever loads fail.
C9_FontFallbackChain ==
    fpc # "idle" =>
        /\ Len(tried) <= 3
        /\ \A k \in 1..Len(tried) : tried[k] = FontChain[k]
        /\ Len(tried) >= 2 => ~dejavuLoads /\ font_size = <<icon_size \div 3>>
        /\ Len(tried) = 3 => ~dejavuLoads /\ ~arialLoads
        /\ fpc \in {"measure", "draw", "return"} =>
              /\ tried # <<>>
              /\ font = tried[Len(tried)]
              /\ font = IF dejavuLoads THEN "DejaVuSans-Bold.ttf"
                        ELSE IF arialLoads THEN "arial.ttf" ELSE "load_default"
        /\ fpc = "return" =>
              img = [width |-> icon_size, height |-> icon_size, by |-> "placeholder"]
        /\ fpc # "return" => ENABLED NextIcon

C9_Witness ==
    /\ fpc = "return"
    /\ tried = FontChain
    /\ font = "load_default"
    /\ font_size = <<icon_size \div 3>>

====
